---- MODULE Spec2Model ----
(***************************************************************************)
(* Request Authorization Gate of the multi-user Todo backend: Token        *)
(* Verifier, Path-Identity Matcher, gate state machine, and the Task Store *)
(* operations the gate guards.  The backend itself (backend/middleware.py, *)
(* backend/routes/tasks.py) is described by the design documents of the    *)
(* repository; definitions follow those documents and, where they are      *)
(* silent, the specification of the gate.  The frontend (lib/api.ts, the   *)
(* pages, the ChatBot component) is modelled from its code, under the      *)
(* specifications FrontSpec and TasksPageSpec.                             *)
(***************************************************************************)
EXTENDS Integers, Sequences, FiniteSets, TLC

(***************************************************************************)
(* Bounds of the model.                                                    *)
(***************************************************************************)
MaxTime == 2
MaxTasks == 1

(***************************************************************************)
(* Value sets.                                                             *)
(***************************************************************************)
Reqs == {"r1", "r2"}

\* user ids of two users, differing in letter case only
Principals == {"u1", "U1"}

\* signing keys: the value of BETTER_AUTH_SECRET and a foreign key
Keys == {"k1", "k2"}

ConfiguredKey == "k1"

NoSecret == "unset"

\* a path segment that cannot be parsed as a user id
BadSegment == "%zz"

PathSegments == Principals \cup {BadSegment}

\* expiry instants of the tokens in circulation, in seconds of the clock
ExpValues == {1}

Titles == {"a", "b"}

NoPrincipal == "-"

NoClass == "-"

NoTask == [owner |-> NoPrincipal, title |-> "", completed |-> FALSE]

TaskIds == 1..MaxTasks

(***************************************************************************)
(* Tokens.  A token carries {user_id, exp} and an HS256 signature over     *)
(* them; the signature is modelled as the triple it is computed from, so   *)
(* it verifies exactly when key and payload are the ones it was made with. *)
(***************************************************************************)
Mac(key, sub, exp) == <<key, sub, exp>>

Issue(key, sub, exp) ==
    [kind |-> "bearer", sub |-> sub, exp |-> exp, mac |-> Mac(key, sub, exp)]

NoHeader == [kind |-> "none", sub |-> NoPrincipal, exp |-> 0, mac |-> Mac("", "", 0)]

Garbage == [kind |-> "garbage", sub |-> NoPrincipal, exp |-> 0, mac |-> Mac("", "", 0)]

IssuedTokens == {Issue(k, p, e) : k \in Keys, p \in Principals, e \in ExpValues}

Credentials == {NoHeader, Garbage} \cup IssuedTokens

\* a verifier that accepts any signature made over the presented payload
SignatureAnyKey(cred, sec) == \E k \in Keys : cred.mac = Mac(k, cred.sub, cred.exp)

SignatureOK(cred, sec) == cred.mac = Mac(sec, cred.sub, cred.exp)

\* expiry one second late: a token expiring exactly now still passes
ExpiredLate(cred, t) == t > cred.exp

Expired(cred, t) == t >= cred.exp

\* a validity test that forgets the expiry
TokenValidNoExpiry(cred, sec, t) == SignatureOK(cred, sec)

TokenValid(cred, sec, t) == SignatureOK(cred, sec) /\ ~Expired(cred, t)

\* letter-case folding of a user id
Fold(s) == IF s = "U1" THEN "u1" ELSE s

\* a subject extraction that normalises letter case
SubjectFolded(cred) == Fold(cred.sub)

SubjectOf(cred) == cred.sub

FailureClasses ==
    {"CredentialMissing", "CredentialMalformed", "SignatureInvalid",
     "CredentialExpired", "IdentityMismatch"}

PathMalformed == "PathMalformed"

Accept(p) == [ok |-> TRUE, principal |-> p, class |-> NoClass]

Reject(c) == [ok |-> FALSE, principal |-> NoPrincipal, class |-> c]

\* a header extraction that hands an absent header on as an empty token
TokenPresentAlways(cred) == TRUE

\* "Token present?": the request has an Authorization header
TokenPresent(cred) == cred.kind # "none"

\* the header value decodes as a signed token
Decodes(cred) == cred.kind = "bearer"

(***************************************************************************)
(* Token Verifier: a function of (credential, secret, current time).       *)
(***************************************************************************)
VerifyToken(cred, sec, t) ==
    IF ~TokenPresent(cred) THEN Reject("CredentialMissing")
    ELSE IF ~Decodes(cred) THEN Reject("CredentialMalformed")
    ELSE IF ~SignatureOK(cred, sec) THEN Reject("SignatureInvalid")
    ELSE IF ~TokenValid(cred, sec, t) THEN Reject("CredentialExpired")
    ELSE Accept(SubjectOf(cred))

(***************************************************************************)
(* Path-Identity Matcher.                                                  *)
(***************************************************************************)
\* a matcher that does not validate the path's user id
WellFormedSegmentAny(seg) == TRUE

WellFormedSegment(seg) == seg # BadSegment

\* a comparison that ignores letter case
SamePrincipalFolded(p, seg) == Fold(p) = Fold(seg)

\* a matcher that lets every verified request through
SamePrincipalAlways(p, seg) == TRUE

SamePrincipal(p, seg) == p = seg

MatchPath(p, seg) ==
    IF ~WellFormedSegment(seg) THEN Reject(PathMalformed)
    ELSE IF SamePrincipal(p, seg) THEN Accept(p)
    ELSE Reject("IdentityMismatch")

(***************************************************************************)
(* Responses.                                                              *)
(***************************************************************************)
\* identity mismatch answered as "not found"
StatusOfHiding(class) ==
    IF class = PathMalformed THEN 400
    ELSE IF class = "IdentityMismatch" THEN 404
    ELSE 401

StatusOf(class) == IF class = PathMalformed THEN 400 ELSE 401

MessageOf(class) ==
    CASE class = "CredentialExpired" -> "Token expired"
      [] class \in {"CredentialMalformed", "SignatureInvalid"} -> "Invalid/expired token"
      [] class = PathMalformed -> "Invalid user_id format"
      [] OTHER -> "Unauthorized"

NoResp == [status |-> 0, msg |-> "", body |-> {}]

ErrorResponse(class) == [status |-> StatusOf(class), msg |-> MessageOf(class), body |-> {}]

(***************************************************************************)
(* State.                                                                  *)
(*   proc    "starting", "serving" or "refused"                            *)
(*   secret  BETTER_AUTH_SECRET as found in the environment                *)
(*   now     wall clock, in seconds                                        *)
(*   req     the requests being handled, one record per execution context: *)
(*           st        state of the gate run ("Idle": no request)          *)
(*           cred      the Authorization header                            *)
(*           path      the {user_id} segment of the path                   *)
(*           principal the user_id the verifier extracted                  *)
(*           class     failure class of a rejected request                 *)
(*           at        the instant the expiry was compared with            *)
(*           resp      the response                                        *)
(*           call      the Task Store call made for the request            *)
(*   tasks   the tasks table, by id                                        *)
(*   nextId  the auto-increment counter of the tasks table                 *)
(***************************************************************************)
VARIABLES proc, secret, now, req, tasks, nextId

(***************************************************************************)
(* State of the browser that runs the frontend.                            *)
(*   jwt        localStorage item 'jwt_token' (NoJwt: no item)             *)
(*   location   the route on display                                       *)
(*   tasksPage  state of the TasksPage component: mounted, userId, filter, *)
(*              sortBy, loading, error, and tasks, the list on display:    *)
(*              the query it is the response to, and whether that was the  *)
(*              request the page issued last                               *)
(*   inflight   the fetches of the frontend, one record per call:          *)
(*              fn      the function that sent it                          *)
(*              st      "idle", "sent" or "done"                           *)
(*              origin  "page" (tasks page and its task components) or     *)
(*                      "chat" (ChatBot)                                   *)
(*              auth    the Authorization header sent (NoHeader: none)     *)
(*              userId  the user id in the URL path                        *)
(*              status  status of the response                             *)
(*              result  "data" (resolved) or "error" (thrown)              *)
(*              query   status and sort_by parameters of a getTasks, or    *)
(*                      those of the loadTasks a chat was rendered with    *)
(*              latest  it is the getTasks the page issued last            *)
(*              live    the page that made the call is still on display    *)
(*   rootPage   state of the root page: the routes its effect has pushed,  *)
(*              kept until the page it pushed mounts or submits            *)
(*   signinPage state of the SigninPage component: loading, error, and the *)
(*              response its submission received                           *)
(***************************************************************************)
VARIABLES jwt, location, tasksPage, inflight, rootPage, signinPage

gateVars == <<proc, secret, now, req, tasks, nextId>>

frontVars == <<jwt, location, tasksPage, inflight, rootPage, signinPage>>

vars ==
    <<proc, secret, now, req, tasks, nextId,
      jwt, location, tasksPage, inflight, rootPage, signinPage>>

Calls == {"c1", "c2"}

\* getJWT() = null
NoJwt == [kind |-> "null", sub |-> NoPrincipal, exp |-> 0, mac |-> Mac("", "", 0)]

\* a signed token whose payload has no user_id
Unclaimed == Issue(ConfiguredKey, "", 1)

\* what localStorage may hold under 'jwt_token'
StoredValues ==
    {NoJwt, Garbage, Unclaimed} \cup {Issue(ConfiguredKey, p, e) : p \in Principals, e \in ExpValues}

Filters == {"all", "active", "completed"}

SortOrders == {"created_at", "title"}

\* no parameters ("-": the parameter is not in the URL)
NoQuery == [status |-> "-", sort_by |-> "-"]

\* useState([]) of tasks
NoList == [query |-> NoQuery, latest |-> FALSE]

FreshPage ==
    [mounted |-> FALSE, userId |-> NoPrincipal, filter |-> "all", sortBy |-> "created_at",
     loading |-> TRUE, error |-> "", tasks |-> NoList]

IdleCall ==
    [fn |-> "-", st |-> "idle", origin |-> "-", auth |-> NoHeader, userId |-> NoPrincipal,
     status |-> 0, result |-> "-", query |-> NoQuery, latest |-> FALSE, live |-> FALSE]

\* the root page before its effect has run
FreshRoot == [redirects |-> <<>>]

\* no response received
NoAnswer == [status |-> 0, access_token |-> NoJwt]

\* what the backend answers a signin with: the status, and the access_token
\* of the body (NoJwt: the body has none)
SigninResponses ==
    {[status |-> 200, access_token |-> tok] : tok \in StoredValues}
        \cup {[status |-> 401, access_token |-> NoJwt]}

\* SigninPage: useState('') of error, useState(false) of loading; response
\* is the answer its last submission received
FreshSignin == [loading |-> FALSE, error |-> "", response |-> NoAnswer]

NoCall == [op |-> "-", owner |-> NoPrincipal, id |-> 0]

IdleReq ==
    [st |-> "Idle", cred |-> NoHeader, path |-> BadSegment, principal |-> NoPrincipal,
     class |-> NoClass, at |-> 0, resp |-> NoResp, call |-> NoCall]

GateStates == {"Unauthenticated", "TokenVerified", "PathMatched", "Authorized", "Rejected"}

Init ==
    /\ proc = "starting"
    /\ secret \in {ConfiguredKey, NoSecret}
    /\ now = 0
    /\ req = [r \in Reqs |-> IdleReq]
    /\ tasks = [t \in TaskIds |-> NoTask]
    /\ nextId = 1
    /\ jwt = NoJwt
    /\ location = "/"
    /\ tasksPage = FreshPage
    /\ inflight = [c \in Calls |-> IdleCall]
    /\ rootPage = FreshRoot
    /\ signinPage = FreshSignin

(***************************************************************************)
(* Process start: the configuration is loaded once; without a signing      *)
(* secret the backend fails to start.                                      *)
(***************************************************************************)
\* a start that goes on with whatever the environment holds
StartupUnchecked ==
    /\ proc = "starting"
    /\ proc' = "serving"
    /\ UNCHANGED <<secret, now, req, tasks, nextId>>
    /\ UNCHANGED frontVars

Startup ==
    /\ proc = "starting"
    /\ proc' = IF secret = NoSecret THEN "refused" ELSE "serving"
    /\ UNCHANGED <<secret, now, req, tasks, nextId>>
    /\ UNCHANGED frontVars

Tick ==
    /\ now < MaxTime
    /\ now' = now + 1
    /\ UNCHANGED <<proc, secret, req, tasks, nextId>>
    /\ UNCHANGED frontVars

(***************************************************************************)
(* Gate.                                                                   *)
(***************************************************************************)
Arrive(r) ==
    /\ proc = "serving"
    /\ req[r].st = "Idle"
    /\ \E c \in Credentials, seg \in PathSegments :
          req' = [req EXCEPT ![r] = [IdleReq EXCEPT !.st = "Unauthenticated",
                                                    !.cred = c, !.path = seg]]
    /\ UNCHANGED <<proc, secret, now, tasks, nextId>>
    /\ UNCHANGED frontVars

\* a gate that verifies one request at a time and waits while another is inside
AwaitsVerificationInTurn(q) ==
    /\ q.st = "Unauthenticated"
    /\ \A o \in Reqs : req[o].st \notin {"TokenVerified", "PathMatched", "Authorized"}

\* a gate that runs the verification again on a rejected request
AwaitsVerificationRetry(q) == q.st \in {"Unauthenticated", "Rejected"}

AwaitsVerification(q) == q.st = "Unauthenticated"

Rejected(q, class, t) ==
    [q EXCEPT !.st = "Rejected", !.class = class, !.at = t,
              !.principal = NoPrincipal, !.resp = ErrorResponse(class)]

\* a verifier that remembers the tokens it accepted and refuses to see one twice
AfterVerifyOnce(q, sec, t) ==
    LET v == VerifyToken(q.cred, sec, t)
        seen == \E o \in Reqs :
                    /\ req[o].cred = q.cred
                    /\ req[o].st \in {"TokenVerified", "PathMatched", "Authorized"}
    IN  IF v.ok /\ ~seen
        THEN [q EXCEPT !.st = "TokenVerified", !.principal = v.principal, !.at = t]
        ELSE IF v.ok THEN Rejected(q, "CredentialMalformed", 0)
        ELSE Rejected(q, v.class, IF v.class = "CredentialExpired" THEN t ELSE 0)

AfterVerify(q, sec, t) ==
    LET v == VerifyToken(q.cred, sec, t)
    IN  IF v.ok
        THEN [q EXCEPT !.st = "TokenVerified", !.principal = v.principal, !.at = t]
        ELSE Rejected(q, v.class, IF v.class = "CredentialExpired" THEN t ELSE 0)

\* the verified user_id kept in one process-wide "current user"
AttachShared(rs, r, q) ==
    [o \in Reqs |->
        IF o = r THEN q
        ELSE IF q.st = "TokenVerified"
                /\ rs[o].st \in {"TokenVerified", "PathMatched", "Authorized"}
             THEN [rs[o] EXCEPT !.principal = q.principal]
             ELSE rs[o]]

\* the result of the verification is attached to the request's own state
Attach(rs, r, q) == [rs EXCEPT ![r] = q]

VerifyStep(r) ==
    /\ AwaitsVerification(req[r])
    /\ req' = Attach(req, r, AfterVerify(req[r], secret, now))
    /\ UNCHANGED <<proc, secret, now, tasks, nextId>>
    /\ UNCHANGED frontVars

AfterMatch(q) ==
    LET m == MatchPath(q.principal, q.path)
    IN  IF m.ok
        THEN [q EXCEPT !.st = "PathMatched"]
        ELSE [Rejected(q, m.class, q.at) EXCEPT !.principal = q.principal]

MatchStep(r) ==
    /\ req[r].st = "TokenVerified"
    /\ req' = [req EXCEPT ![r] = AfterMatch(req[r])]
    /\ UNCHANGED <<proc, secret, now, tasks, nextId>>
    /\ UNCHANGED frontVars

AuthorizeStep(r) ==
    /\ req[r].st = "PathMatched"
    /\ req' = [req EXCEPT ![r].st = "Authorized"]
    /\ UNCHANGED <<proc, secret, now, tasks, nextId>>
    /\ UNCHANGED frontVars

\* the response has been sent; the per-request state is dropped
Close(r) ==
    /\ req[r].st \in {"Rejected", "Responded"}
    /\ req' = [req EXCEPT ![r] = IdleReq]
    /\ UNCHANGED <<proc, secret, now, tasks, nextId>>
    /\ UNCHANGED frontVars

(***************************************************************************)
(* Task Store and the route handlers.  Every query is filtered by the      *)
(* owner the handler passes, which is the principal the gate verified.     *)
(***************************************************************************)
\* a handler that touches the store before the path was matched
CanInvokeStoreEarly(q) == q.st \in {"TokenVerified", "PathMatched", "Authorized"}

CanInvokeStore(q) == q.st = "Authorized"

\* a handler that lower-cases the user id before it queries
OwnerArgFolded(q) == Fold(q.principal)

OwnerArg(q) == q.principal

\* a query without the user_id filter
OwnsUnfiltered(task, owner) == task # NoTask

Owns(task, owner) == task # NoTask /\ task.owner = owner

\* a task as it appears in a response body (id and user_id)
View(t) == [id |-> t, owner |-> tasks[t].owner]

StatusFilters == {"all", "active", "completed"}

Shown(task, status) ==
    CASE status = "active" -> ~task.completed
      [] status = "completed" -> task.completed
      [] OTHER -> TRUE

Responded(q, op, id, status, msg, body) ==
    [q EXCEPT !.st = "Responded",
              !.resp = [status |-> status, msg |-> msg, body |-> body],
              !.call = [op |-> op, owner |-> OwnerArg(q), id |-> id]]

\* answered by request validation, before any query
Refused(q, status, msg) ==
    [q EXCEPT !.st = "Responded", !.resp = [status |-> status, msg |-> msg, body |-> {}]]

NotFound(q, op, id) == Responded(q, op, id, 404, "Not Found", {})

ListTasks(r) ==
    /\ CanInvokeStore(req[r])
    /\ \E status \in StatusFilters :
          req' = [req EXCEPT ![r] =
                    Responded(req[r], "list", 0, 200, "OK",
                              {View(t) : t \in {u \in TaskIds :
                                   /\ Owns(tasks[u], OwnerArg(req[r]))
                                   /\ Shown(tasks[u], status)}})]
    /\ UNCHANGED <<proc, secret, now, tasks, nextId>>
    /\ UNCHANGED frontVars

CreateTask(r) ==
    /\ CanInvokeStore(req[r])
    /\ \E title \in Titles \cup {""} :
          IF title = ""
          THEN /\ req' = [req EXCEPT ![r] = Refused(req[r], 400, "Title is required")]
               /\ UNCHANGED <<tasks, nextId>>
          ELSE /\ nextId <= MaxTasks
               /\ tasks' = [tasks EXCEPT ![nextId] =
                              [owner |-> OwnerArg(req[r]), title |-> title,
                               completed |-> FALSE]]
               /\ nextId' = nextId + 1
               /\ req' = [req EXCEPT ![r] =
                            Responded(req[r], "create", nextId, 201, "Created",
                                      {[id |-> nextId, owner |-> OwnerArg(req[r])]})]
    /\ UNCHANGED <<proc, secret, now>>
    /\ UNCHANGED frontVars

GetTask(r) ==
    /\ CanInvokeStore(req[r])
    /\ \E id \in TaskIds :
          req' = [req EXCEPT ![r] =
                    IF Owns(tasks[id], OwnerArg(req[r]))
                    THEN Responded(req[r], "get", id, 200, "OK", {View(id)})
                    ELSE NotFound(req[r], "get", id)]
    /\ UNCHANGED <<proc, secret, now, tasks, nextId>>
    /\ UNCHANGED frontVars

UpdateTask(r) ==
    /\ CanInvokeStore(req[r])
    /\ \E id \in TaskIds, title \in Titles \cup {""} :
          IF title = ""
          THEN /\ req' = [req EXCEPT ![r] = Refused(req[r], 400, "Title is required")]
               /\ UNCHANGED tasks
          ELSE IF Owns(tasks[id], OwnerArg(req[r]))
          THEN /\ tasks' = [tasks EXCEPT ![id].title = title]
               /\ req' = [req EXCEPT ![r] =
                            Responded(req[r], "update", id, 200, "OK",
                                      {View(id)})]
          ELSE /\ req' = [req EXCEPT ![r] = NotFound(req[r], "update", id)]
               /\ UNCHANGED tasks
    /\ UNCHANGED <<proc, secret, now, nextId>>
    /\ UNCHANGED frontVars

DeleteTask(r) ==
    /\ CanInvokeStore(req[r])
    /\ \E id \in TaskIds :
          IF Owns(tasks[id], OwnerArg(req[r]))
          THEN /\ tasks' = [tasks EXCEPT ![id] = NoTask]
               /\ req' = [req EXCEPT ![r] =
                            Responded(req[r], "delete", id, 204, "No Content", {})]
          ELSE /\ req' = [req EXCEPT ![r] = NotFound(req[r], "delete", id)]
               /\ UNCHANGED tasks
    /\ UNCHANGED <<proc, secret, now, nextId>>
    /\ UNCHANGED frontVars

ToggleTask(r) ==
    /\ CanInvokeStore(req[r])
    /\ \E id \in TaskIds :
          IF Owns(tasks[id], OwnerArg(req[r]))
          THEN /\ tasks' = [tasks EXCEPT ![id].completed = ~tasks[id].completed]
               /\ req' = [req EXCEPT ![r] =
                            Responded(req[r], "toggle", id, 200, "OK",
                                      {View(id)})]
          ELSE /\ req' = [req EXCEPT ![r] = NotFound(req[r], "toggle", id)]
               /\ UNCHANGED tasks
    /\ UNCHANGED <<proc, secret, now, nextId>>
    /\ UNCHANGED frontVars

Next ==
    \/ Startup
    \/ Tick
    \/ \E r \in Reqs : Arrive(r)
    \/ \E r \in Reqs : VerifyStep(r)
    \/ \E r \in Reqs : MatchStep(r)
    \/ \E r \in Reqs : AuthorizeStep(r)
    \/ \E r \in Reqs : ListTasks(r)
    \/ \E r \in Reqs : CreateTask(r)
    \/ \E r \in Reqs : GetTask(r)
    \/ \E r \in Reqs : UpdateTask(r)
    \/ \E r \in Reqs : DeleteTask(r)
    \/ \E r \in Reqs : ToggleTask(r)
    \/ \E r \in Reqs : Close(r)

Spec == Init /\ [][Next]_vars

(***************************************************************************)
(* The gate is pure computation on the request's own execution context:    *)
(* once a request is inside, each of its gate steps is taken.  Nothing is  *)
(* assumed of the clients, the clock or the route handlers.                *)
(***************************************************************************)
GateFairness ==
    \A r \in Reqs :
        /\ WF_vars(VerifyStep(r))
        /\ WF_vars(MatchStep(r))
        /\ WF_vars(AuthorizeStep(r))

FairSpec == Init /\ [][Next]_vars /\ GateFairness

(***************************************************************************)
(* Frontend: lib/api.ts, the pages and the ChatBot component, as they run  *)
(* in one browser tab.  The backend is the environment: the status of a    *)
(* response is an input.                                                   *)
(***************************************************************************)
Routes == {"/", "/signin", "/tasks"}

\* the api.ts functions the task components call besides getTasks
TaskFns == {"getTask", "createTask", "updateTask", "deleteTask", "toggleCompleteTask"}

\* statuses the backend answers the call with
Statuses(fn) ==
    IF fn = "deleteTask" THEN {204, 401, 404}
    ELSE IF fn = "chat" THEN {200, 401, 500}
    ELSE {200, 401, 404}

\* response.ok
Ok(status) == status \in 200..299

\* `if (token)`: a string from storage that is not null
Truthy(tok) == tok # NoJwt

\* the Authorization header of an api.ts request: `Bearer ${token}`, or none
getHeaders(tok) == IF Truthy(tok) THEN tok ELSE NoHeader

\* user_id of the payload, null when there is no token, the payload does not
\* decode, or it has no user_id
getUserIdFromToken(tok) ==
    IF ~Truthy(tok) THEN NoPrincipal
    ELSE IF tok.kind # "bearer" THEN NoPrincipal
    ELSE IF tok.sub = "" THEN NoPrincipal
    ELSE tok.sub

\* a check that looks at the presence of the token only
AuthenticatedByPresence(tok) == Truthy(tok)

\* `token && userId`
Authenticated(tok) == Truthy(tok) /\ getUserIdFromToken(tok) # NoPrincipal

\* fetch(url, {headers}) for call c
Sent(c, fn, origin, auth, uid) ==
    [inflight EXCEPT ![c] =
        [fn |-> fn, st |-> "sent", origin |-> origin, auth |-> auth, userId |-> uid,
         status |-> 0, result |-> "-", query |-> NoQuery, latest |-> FALSE, live |-> TRUE]]

\* a loadTasks that sends the filter whatever it is
optionsOfFilter(filter, sortBy) == [status |-> filter, sort_by |-> sortBy]

\* the parameters loadTasks and getTasks make of filter and sortBy: status
\* is left out for 'all', sort_by is always there
optionsOf(filter, sortBy) ==
    [status |-> IF filter = "all" THEN "-" ELSE filter, sort_by |-> sortBy]

\* the options of the loadTasks of the current render
Options == optionsOf(tasksPage.filter, tasksPage.sortBy)

\* getTasks(userId, options) for call c up to `await fetch(...)`; it is now
\* the request issued last
getTasks(c, origin, auth, uid, options, live) ==
    [d \in Calls |->
        IF d = c
        THEN [fn |-> "getTasks", st |-> "sent", origin |-> origin, auth |-> auth,
              userId |-> uid, status |-> 0, result |-> "-", query |-> options,
              latest |-> live, live |-> live]
        ELSE IF live THEN [inflight[d] EXCEPT !.latest = FALSE] ELSE inflight[d]]

\* loadTasks before the await: setLoading(true), setError('')
Loading(page) ==
    [page EXCEPT !.loading = TRUE, !.error = "", !.tasks.latest = FALSE]

\* the page on display is left: its component state is gone, and what its
\* calls still do reaches no page
Left(page) == [FreshPage EXCEPT !.mounted = page.mounted, !.userId = page.userId]

Unmounted(calls) == [c \in Calls |-> [calls[c] EXCEPT !.latest = FALSE, !.live = FALSE]]

\* the tasks page is rendered with its task components and the ChatBot
Rendered == location = "/tasks" /\ tasksPage.userId # NoPrincipal

FrontInit ==
    /\ proc = "starting"
    /\ secret = ConfiguredKey
    /\ now = 0
    /\ req = [r \in Reqs |-> IdleReq]
    /\ tasks = [t \in TaskIds |-> NoTask]
    /\ nextId = 1
    /\ jwt \in StoredValues
    /\ location = "/"
    /\ tasksPage = FreshPage
    /\ inflight = [c \in Calls |-> IdleCall]
    /\ rootPage = FreshRoot
    /\ signinPage = FreshSignin

\* middleware.ts, matcher '/:path*': NextResponse.next() for every request,
\* whatever it carries; the route asked for is the route served
middleware(route) == route

\* the user opens a route: the request passes the middleware, and the pages
\* start from their initial state (what a page left behind awaits is lost
\* with it, except the fetches of inflight)
Visit(route) ==
    /\ location' = middleware(route)
    /\ tasksPage' = IF middleware(route) = "/tasks" THEN FreshPage ELSE Left(tasksPage)
    /\ signinPage' = FreshSignin
    /\ rootPage' = FreshRoot
    /\ inflight' = Unmounted(inflight)
    /\ UNCHANGED jwt
    /\ UNCHANGED gateVars

\* a check of the root page that looks at the presence of the token only
homeTargetByToken(tok) == IF Truthy(tok) THEN "/tasks" ELSE "/signin"

\* the route the root page pushes: `if (token && userId)`
homeTarget(tok) == IF Authenticated(tok) THEN "/tasks" ELSE "/signin"

\* root page, effect on load (dependencies [router]: it runs once)
Home ==
    /\ location = "/"
    /\ rootPage.redirects = <<>>
    /\ rootPage' = [redirects |-> Append(rootPage.redirects, homeTarget(jwt))]
    /\ location' = homeTarget(jwt)
    /\ IF homeTarget(jwt) = "/tasks"
       THEN tasksPage' = FreshPage /\ UNCHANGED signinPage
       ELSE signinPage' = FreshSignin /\ UNCHANGED tasksPage
    /\ UNCHANGED <<jwt, inflight>>
    /\ UNCHANGED gateVars

\* TasksPage, effect on mount; setUserId runs the effect on [userId, filter,
\* sortBy], which calls loadTasks
MountTasksPage ==
    /\ location = "/tasks"
    /\ ~tasksPage.mounted
    /\ IF ~Authenticated(jwt)
       THEN /\ location' = "/signin"
            /\ tasksPage' = [FreshPage EXCEPT !.mounted = TRUE]
            /\ signinPage' = FreshSignin
            /\ UNCHANGED inflight
       ELSE /\ \E c \in Calls :
                  /\ inflight[c].st = "idle"
                  /\ inflight' = getTasks(c, "page", getHeaders(jwt),
                                          getUserIdFromToken(jwt), Options, TRUE)
            /\ tasksPage' = Loading([tasksPage EXCEPT !.mounted = TRUE,
                                                      !.userId = getUserIdFromToken(jwt)])
            /\ UNCHANGED <<location, signinPage>>
    /\ rootPage' = FreshRoot
    /\ UNCHANGED jwt
    /\ UNCHANGED gateVars

\* TasksPage.loadTasks up to `await getTasks(...)`, called by a task
\* component after a change
loadTasks(c) ==
    /\ Rendered
    /\ inflight[c].st = "idle"
    /\ inflight' = getTasks(c, "page", getHeaders(jwt), tasksPage.userId, Options, TRUE)
    /\ tasksPage' = Loading(tasksPage)
    /\ UNCHANGED <<jwt, location, rootPage, signinPage>>
    /\ UNCHANGED gateVars

\* the user selects a filter: setFilter, then the effect on [userId, filter,
\* sortBy] calls the loadTasks of the new render
setFilter(filter, c) ==
    /\ Rendered
    /\ filter # tasksPage.filter
    /\ inflight[c].st = "idle"
    /\ inflight' = getTasks(c, "page", getHeaders(jwt), tasksPage.userId,
                            optionsOf(filter, tasksPage.sortBy), TRUE)
    /\ tasksPage' = Loading([tasksPage EXCEPT !.filter = filter])
    /\ UNCHANGED <<jwt, location, rootPage, signinPage>>
    /\ UNCHANGED gateVars

\* the user selects a sort order: setSortBy, then the same effect
setSortBy(sortBy, c) ==
    /\ Rendered
    /\ sortBy # tasksPage.sortBy
    /\ inflight[c].st = "idle"
    /\ inflight' = getTasks(c, "page", getHeaders(jwt), tasksPage.userId,
                            optionsOf(tasksPage.filter, sortBy), TRUE)
    /\ tasksPage' = Loading([tasksPage EXCEPT !.sortBy = sortBy])
    /\ UNCHANGED <<jwt, location, rootPage, signinPage>>
    /\ UNCHANGED gateVars

\* a task component calls getTask, createTask, updateTask, deleteTask or
\* toggleCompleteTask with the page's userId
TaskRequest(c) ==
    /\ Rendered
    /\ inflight[c].st = "idle"
    /\ \E fn \in TaskFns :
          inflight' = Sent(c, fn, "page", getHeaders(jwt), tasksPage.userId)
    /\ UNCHANGED <<jwt, location, tasksPage, rootPage, signinPage>>
    /\ UNCHANGED gateVars

\* ChatBot.sendMessage up to `await fetch(...)`; it keeps the onTaskUpdate
\* of its render
sendMessage(c) ==
    /\ Rendered
    /\ inflight[c].st = "idle"
    /\ inflight' =
          IF ~Truthy(jwt)
          THEN [inflight EXCEPT ![c] =
                   [IdleCall EXCEPT !.fn = "chat", !.st = "done", !.origin = "chat",
                                    !.userId = tasksPage.userId, !.result = "error",
                                    !.live = TRUE]]
          ELSE [Sent(c, "chat", "chat", jwt, tasksPage.userId) EXCEPT ![c].query = Options]
    /\ UNCHANGED <<jwt, location, tasksPage, rootPage, signinPage>>
    /\ UNCHANGED gateVars

\* what handleResponse does with a response: removes the token and goes to
\* /signin on 401, throws unless ok
handleResponse(status) ==
    [signout |-> status = 401,
     result |-> IF status = 401 \/ ~Ok(status) THEN "error" ELSE "data"]

\* the response to an api.ts call arrives
ApiResponse(c) ==
    /\ inflight[c].st = "sent"
    /\ inflight[c].fn # "chat"
    /\ \E status \in Statuses(inflight[c].fn) :
          LET h == IF inflight[c].fn = "deleteTask" /\ status = 204
                   THEN [signout |-> FALSE, result |-> "data"]
                   ELSE handleResponse(status)
              answered == [inflight EXCEPT ![c].st = "done", ![c].status = status,
                                           ![c].result = h.result]
          IN  /\ inflight' = IF h.signout THEN Unmounted(answered) ELSE answered
              /\ jwt' = IF h.signout THEN NoJwt ELSE jwt
              /\ location' = IF h.signout THEN "/signin" ELSE location
              /\ signinPage' = IF h.signout THEN FreshSignin ELSE signinPage
              /\ tasksPage' = IF h.signout THEN Left(tasksPage) ELSE tasksPage
    /\ UNCHANGED rootPage
    /\ UNCHANGED gateVars

\* the response to a chat request arrives; after tool calls the ChatBot
\* calls onTaskUpdate, which is the loadTasks it was rendered with
ChatResponse(c) ==
    /\ inflight[c].st = "sent"
    /\ inflight[c].fn = "chat"
    /\ \E status \in Statuses("chat"), toolCalls \in BOOLEAN :
          IF Ok(status) /\ toolCalls
          THEN /\ inflight' = getTasks(c, "chat", getHeaders(jwt), inflight[c].userId,
                                       inflight[c].query, inflight[c].live)
               /\ tasksPage' = IF inflight[c].live THEN Loading(tasksPage) ELSE tasksPage
          ELSE /\ inflight' = [inflight EXCEPT ![c].st = "done", ![c].status = status,
                                               ![c].result = IF Ok(status) THEN "data"
                                                             ELSE "error"]
               /\ UNCHANGED tasksPage
    /\ UNCHANGED <<jwt, location, rootPage, signinPage>>
    /\ UNCHANGED gateVars

\* loadTasks after the await: setTasks(data), or setError in the catch, and
\* setLoading(false) in the finally
Loaded(page, call) ==
    [page EXCEPT !.loading = FALSE,
                 !.tasks = IF call.result = "data"
                           THEN [query |-> call.query, latest |-> call.latest]
                           ELSE @,
                 !.error = IF call.result = "data" THEN @ ELSE "Failed to load tasks"]

\* the caller takes the result of the call; the caller of a getTasks is
\* loadTasks
Settle(c) ==
    /\ inflight[c].st = "done"
    /\ inflight' = [inflight EXCEPT ![c] = IdleCall]
    /\ tasksPage' = IF inflight[c].fn = "getTasks" /\ inflight[c].live
                    THEN Loaded(tasksPage, inflight[c])
                    ELSE tasksPage
    /\ UNCHANGED <<jwt, location, rootPage, signinPage>>
    /\ UNCHANGED gateVars

\* Sign Out button of the tasks page
handleSignout ==
    /\ Rendered
    /\ jwt' = NoJwt
    /\ location' = "/signin"
    /\ signinPage' = FreshSignin
    /\ tasksPage' = Left(tasksPage)
    /\ inflight' = Unmounted(inflight)
    /\ UNCHANGED rootPage
    /\ UNCHANGED gateVars

\* SigninPage.handleSubmit up to `await fetch(...)`; the button is disabled
\* while loading
handleSubmit ==
    /\ location = "/signin"
    /\ ~signinPage.loading
    /\ signinPage' = [loading |-> TRUE, error |-> "", response |-> NoAnswer]
    /\ rootPage' = FreshRoot
    /\ UNCHANGED <<jwt, location, tasksPage, inflight>>
    /\ UNCHANGED gateVars

\* a handler whose catch shows nothing
signinResultSilent(resp) ==
    IF Ok(resp.status) /\ Truthy(resp.access_token)
    THEN [token |-> resp.access_token, push |-> TRUE, error |-> ""]
    ELSE [token |-> NoJwt, push |-> FALSE, error |-> ""]

\* what handleSubmit does with the response: throws unless ok, stores the
\* access_token and pushes /tasks if the body has one; token is what it
\* hands to setJWT (NoJwt: setJWT is not called), error what the catch shows
signinResult(resp) ==
    IF ~Ok(resp.status)
    THEN [token |-> NoJwt, push |-> FALSE, error |-> "Invalid credentials"]
    ELSE IF Truthy(resp.access_token)
    THEN [token |-> resp.access_token, push |-> TRUE, error |-> ""]
    ELSE [token |-> NoJwt, push |-> FALSE, error |-> ""]

\* the response to the signin arrives: rest of handleSubmit.  router.push to
\* the route on display leaves the page on display as it is
SigninResponse ==
    /\ signinPage.loading
    /\ \E resp \in SigninResponses :
          LET h == signinResult(resp)
          IN  /\ jwt' = IF Truthy(h.token) THEN h.token ELSE jwt
              /\ location' = IF h.push THEN "/tasks" ELSE location
              /\ tasksPage' = IF h.push /\ location # "/tasks" THEN FreshPage ELSE tasksPage
              /\ signinPage' = [loading |-> FALSE, error |-> h.error, response |-> resp]
    /\ UNCHANGED <<inflight, rootPage>>
    /\ UNCHANGED gateVars

FrontNext ==
    \/ \E route \in Routes : Visit(route)
    \/ Home
    \/ MountTasksPage
    \/ \E c \in Calls : loadTasks(c)
    \/ \E c \in Calls : TaskRequest(c)
    \/ \E c \in Calls : sendMessage(c)
    \/ \E c \in Calls : ApiResponse(c)
    \/ \E c \in Calls : ChatResponse(c)
    \/ \E c \in Calls : Settle(c)
    \/ handleSignout
    \/ handleSubmit
    \/ SigninResponse

FrontSpec == FrontInit /\ [][FrontNext]_vars

(***************************************************************************)
(* The tasks page in use: the user opens it, selects filters and sort      *)
(* orders, changes tasks and talks to the ChatBot, and the responses       *)
(* arrive in any order.                                                    *)
(***************************************************************************)
TasksPageNext ==
    \/ Visit("/tasks")
    \/ MountTasksPage
    \/ \E c \in Calls : loadTasks(c)
    \/ \E c \in Calls, filter \in Filters : setFilter(filter, c)
    \/ \E c \in Calls, sortBy \in SortOrders : setSortBy(sortBy, c)
    \/ \E c \in Calls : sendMessage(c)
    \/ \E c \in Calls : ApiResponse(c)
    \/ \E c \in Calls : ChatResponse(c)
    \/ \E c \in Calls : Settle(c)

TasksPageSpec == FrontInit /\ [][TasksPageNext]_vars

(***************************************************************************)
(* Vocabulary of the properties.                                           *)
(***************************************************************************)
\* the token is the one an issuer holding key k makes for its payload
SignedWith(cred, k) == cred.kind = "bearer" /\ cred = Issue(k, cred.sub, cred.exp)

\* the verifier has run on the request
Processed(q) == q.st \notin {"Idle", "Unauthenticated"}

\* the verifier accepted the request's token
PassedVerifier(q) ==
    \/ q.st \in {"TokenVerified", "PathMatched", "Authorized", "Responded"}
    \/ q.st = "Rejected" /\ q.class \in {"IdentityMismatch", PathMalformed}

\* the matcher has run on the request
Matched(q) == PassedVerifier(q) /\ q.st # "TokenVerified"

(***************************************************************************)
(* C1.  A Task Store call is made for a request only once its gate run has *)
(* reached Authorized: every request with a store call carries a token     *)
(* signed with the configured secret, unexpired when checked, whose        *)
(* principal equals the path identity; a rejected request has no call.     *)
(***************************************************************************)
StoreCallOnlyWhenAuthorized ==
    \A r \in Reqs :
        req[r].call # NoCall =>
            /\ req[r].st = "Responded"
            /\ req[r].class = NoClass
            /\ SignedWith(req[r].cred, secret)
            /\ req[r].at < req[r].cred.exp
            /\ req[r].principal = req[r].cred.sub
            /\ req[r].principal = req[r].path

StoreCalledAndMismatchKept ==
    \E r1, r2 \in Reqs :
        /\ req[r1].call.op = "create"
        /\ req[r2].st = "Rejected"
        /\ req[r2].class = "IdentityMismatch"
        /\ req[r2].call = NoCall

(***************************************************************************)
(* C3.  Whenever a request is Authorized, the principal extracted from its *)
(* token equals the identity segment of its path.                          *)
(***************************************************************************)
AuthorizedPairEqual ==
    \A r \in Reqs :
        req[r].st = "Authorized" =>
            /\ req[r].principal = req[r].path
            /\ req[r].principal = req[r].cred.sub

SomeAuthorized == \E r \in Reqs : req[r].st = "Authorized" /\ req[r].path \in Principals

(***************************************************************************)
(* C4.  For a request with a verified token and a well-formed path         *)
(* identity, the matcher lets it on towards Authorized exactly when        *)
(* principal and path identity are the same string, and rejects it with    *)
(* IdentityMismatch when they differ, be it in letter case only.           *)
(***************************************************************************)
MatchIsExactEquality ==
    \A r \in Reqs :
        (Matched(req[r]) /\ WellFormedSegment(req[r].path)) =>
            IF req[r].principal = req[r].path
            THEN req[r].st \in {"PathMatched", "Authorized", "Responded"}
            ELSE req[r].st = "Rejected" /\ req[r].class = "IdentityMismatch"

EqualPassedCaseOnlyRejected ==
    \E r1, r2 \in Reqs :
        /\ req[r1].st = "Authorized"
        /\ req[r1].principal = req[r1].path
        /\ req[r2].st = "Rejected"
        /\ req[r2].class = "IdentityMismatch"
        /\ req[r2].principal # req[r2].path
        /\ Fold(req[r2].principal) = Fold(req[r2].path)

\* request r leaves the gate for the store in this step
Handled(r) == req[r].st = "Authorized" /\ req'[r].st = "Responded"

\* request r, handled in this step, names a task that belongs to someone else
AimedAtForeignTask(r) ==
    /\ Handled(r)
    /\ req'[r].call.id \in TaskIds
    /\ req'[r].call.op # "create"
    /\ tasks[req'[r].call.id] # NoTask
    /\ tasks[req'[r].call.id].owner # req[r].principal

\* request r, whose verified principal is not the path's user, is matched in this step
AimedAtForeignPath(r) ==
    /\ req[r].st = "TokenVerified"
    /\ req'[r].st # "TokenVerified"
    /\ req[r].path \in Principals
    /\ req[r].path # req[r].principal

GateMoves ==
    {<<"Idle", "Unauthenticated">>,
     <<"Unauthenticated", "TokenVerified">>, <<"Unauthenticated", "Rejected">>,
     <<"TokenVerified", "PathMatched">>, <<"TokenVerified", "Rejected">>,
     <<"PathMatched", "Authorized">>,
     <<"Authorized", "Responded">>,
     <<"Rejected", "Idle">>, <<"Responded", "Idle">>}

(***************************************************************************)
(* C5.  A gate run moves only along Unauthenticated -> TokenVerified ->    *)
(* PathMatched -> Authorized, one state at a time; a failure moves it to   *)
(* Rejected with one failure class; a rejected request stays rejected,     *)
(* with the same class and response, until its response is sent and the    *)
(* request is gone: it is never verified or matched again.                 *)
(***************************************************************************)
GateRunsForwardOnly ==
    [][\A r \in Reqs :
          /\ req'[r].st # req[r].st => <<req[r].st, req'[r].st>> \in GateMoves
          /\ req'[r].st = "Rejected" <=>
                 req'[r].class \in FailureClasses \cup {PathMalformed}
          /\ req'[r].st # "Rejected" => req'[r].class = NoClass
          /\ req[r].st = "Rejected" => req'[r] \in {req[r], IdleReq}]_vars

RejectedBesideAuthorized ==
    \E r1, r2 \in Reqs :
        /\ req[r1].st = "Rejected"
        /\ req[r1].class = "CredentialExpired"
        /\ req[r2].st = "Authorized"

\* the verifier runs on request r in this step
Verified(r) == req[r].st = "Unauthenticated" /\ req'[r].st # "Unauthenticated"

ExpiredExactlyFromExpiryOn ==
    \A r \in Reqs :
        (Processed(req[r]) /\ SignedWith(req[r].cred, secret)) =>
            ((req[r].st = "Rejected" /\ req[r].class = "CredentialExpired")
                <=> req[r].at >= req[r].cred.exp)

EdgeRejectedNextSecondAccepted ==
    \E r1, r2 \in Reqs :
        /\ req[r1].st = "Rejected"
        /\ req[r1].class = "CredentialExpired"
        /\ req[r1].cred.exp = req[r1].at
        /\ PassedVerifier(req[r2])
        /\ req[r2].cred.exp = req[r2].at + 1

(***************************************************************************)
(* C9.  Verifying a token signed with the configured secret whose expiry   *)
(* is after the check instant succeeds and yields the token's principal.   *)
(***************************************************************************)
ValidTokenYieldsItsPrincipal ==
    \A r \in Reqs :
        (/\ Processed(req[r])
         /\ SignedWith(req[r].cred, secret)
         /\ req[r].at < req[r].cred.exp) =>
            /\ PassedVerifier(req[r])
            /\ req[r].principal = req[r].cred.sub

PrincipalExtracted ==
    \E r \in Reqs :
        /\ req[r].st = "TokenVerified"
        /\ req[r].cred = Issue(ConfiguredKey, "U1", 1)
        /\ req[r].principal = "U1"
        /\ req[r].at = 0

GateRejected(q) == q.st = "Rejected" /\ q.class \in FailureClasses

OwnerIsVerifiedPrincipal ==
    [][\A r \in Reqs :
          /\ (req[r].st \in {"TokenVerified", "PathMatched", "Authorized"}
                  /\ req'[r].st # "Idle") =>
                 /\ req'[r].principal = req[r].principal
                 /\ req'[r].cred = req[r].cred
          /\ (Handled(r) /\ req'[r].call # NoCall) =>
                 /\ req'[r].call.op \in
                        {"list", "create", "get", "update", "delete", "toggle"}
                 /\ req'[r].call.owner = SubjectOf(req[r].cred)
                 /\ req'[r].call.owner = req[r].principal
                 /\ SignedWith(req[r].cred, secret)]_vars

EveryOperationCalled ==
    \E r1, r2 \in Reqs :
        /\ req[r1].call.op \in {"update", "toggle", "delete", "get", "list"}
        /\ req[r1].call.owner = "U1"
        /\ req[r1].cred.sub = "U1"
        /\ req[r2].call.op = "create"
        /\ req[r2].call.owner = "U1"

\* the request has been answered by the gate or by a handler
Answered(q) == q.st \in {"Rejected", "Responded"}

(***************************************************************************)
(* C12, as stated.  A request whose path identity is malformed is answered *)
(* with 400, not 401, and reaches neither Rejected(IdentityMismatch) nor   *)
(* Authorized.                                                             *)
(***************************************************************************)
MalformedPathAlways400 ==
    \A r \in Reqs :
        req[r].path = BadSegment =>
            /\ req[r].st \notin {"PathMatched", "Authorized", "Responded"}
            /\ req[r].class # "IdentityMismatch"
            /\ Answered(req[r]) => req[r].resp.status = 400

(***************************************************************************)
(* C12, amended.  A request whose token passed verification and whose path *)
(* identity is malformed is answered with 400, not 401; the check precedes *)
(* the equality comparison, so a request with a malformed path identity    *)
(* never reaches Rejected(IdentityMismatch) or Authorized and makes no     *)
(* store call.  A request whose credential fails verification is answered  *)
(* 401 with the verifier's failure class, whatever its path identity.      *)
(***************************************************************************)
MalformedPath400OnceVerified ==
    \A r \in Reqs :
        req[r].path = BadSegment =>
            /\ req[r].st \notin {"PathMatched", "Authorized", "Responded"}
            /\ req[r].class # "IdentityMismatch"
            /\ req[r].call = NoCall
            /\ Matched(req[r]) =>
                   /\ req[r].st = "Rejected"
                   /\ req[r].class = PathMalformed
                   /\ req[r].resp = [status |-> 400, msg |-> "Invalid user_id format",
                                     body |-> {}]
            /\ (Answered(req[r]) /\ ~PassedVerifier(req[r])) =>
                   /\ req[r].class \in FailureClasses \ {"IdentityMismatch"}
                   /\ req[r].resp.status = 401

MalformedPathRejected400 ==
    \E r1, r2 \in Reqs :
        /\ req[r1].st = "Rejected"
        /\ req[r1].path = BadSegment
        /\ req[r1].class = PathMalformed
        /\ req[r1].principal \in Principals
        /\ req[r1].resp.status = 400
        /\ req[r2].st = "Rejected"
        /\ req[r2].path = BadSegment
        /\ req[r2].class = "SignatureInvalid"

(***************************************************************************)
(* C13.  A request without Authorization header is rejected with 401 and   *)
(* class CredentialMissing; a request whose header value is not a          *)
(* structurally valid signed token is rejected with 401 and class          *)
(* CredentialMalformed.  Neither carries the result of a signature or      *)
(* expiry check: no principal, no expiry comparison, no other class.       *)
(***************************************************************************)
MissingAndMalformedClassified ==
    \A r \in Reqs :
        (Processed(req[r]) /\ req[r].cred \in {NoHeader, Garbage}) =>
            /\ req[r].st = "Rejected"
            /\ req[r].class =
                  IF req[r].cred = NoHeader THEN "CredentialMissing"
                  ELSE "CredentialMalformed"
            /\ req[r].resp.status = 401
            /\ req[r].resp.body = {}
            /\ req[r].principal = NoPrincipal
            /\ req[r].at = 0
            /\ req[r].call = NoCall

MissingBesideMalformed ==
    \E r1, r2 \in Reqs :
        /\ req[r1].cred = NoHeader
        /\ req[r1].st = "Rejected"
        /\ req[r1].class = "CredentialMissing"
        /\ req[r2].cred = Garbage
        /\ req[r2].st = "Rejected"
        /\ req[r2].class = "CredentialMalformed"
        /\ now > 0

\* the gate has decided the request
Settled(q) == q.st \in {"Authorized", "Rejected", "Responded"}

GateOutcome(q) ==
    IF q.st = "Rejected" THEN <<"Rejected", q.class, NoPrincipal>>
    ELSE <<"Authorized", NoClass, q.principal>>

\* the outcome of a gate run on one request with nothing else going on
Alone(cred, seg, sec, t) ==
    LET v == VerifyToken(cred, sec, t)
        m == MatchPath(v.principal, seg)
    IN  IF ~v.ok THEN <<"Rejected", v.class, NoPrincipal>>
        ELSE IF ~m.ok THEN <<"Rejected", m.class, NoPrincipal>>
        ELSE <<"Authorized", NoClass, v.principal>>

\* the instants at which the request's token may have been checked
CheckInstants(q) ==
    IF q.st = "Rejected"
       /\ q.class \in {"CredentialMissing", "CredentialMalformed", "SignatureInvalid"}
    THEN 0..MaxTime
    ELSE {q.at}

(***************************************************************************)
(* C14.  Under any interleaving of requests, the gate outcome of each      *)
(* request (Authorized with its principal, or Rejected with its class) is  *)
(* the one a gate run on that request alone yields from its credential,    *)
(* its path identity, the signing secret and the check instant; a step of  *)
(* one request changes neither another request's state nor the secret.     *)
(***************************************************************************)
RequestsIndependent ==
    [][\A r \in Reqs :
          /\ req'[r] # req[r] =>
                 /\ \A o \in Reqs \ {r} : req'[o] = req[o]
                 /\ secret' = secret
          /\ Settled(req'[r]) =>
                 \A t \in CheckInstants(req'[r]) :
                     GateOutcome(req'[r]) =
                         Alone(req'[r].cred, req'[r].path, secret, t)]_vars

InterleavedRuns ==
    \E r1, r2 \in Reqs :
        /\ req[r1].st = "Authorized"
        /\ req[r1].principal = "u1"
        /\ req[r2].st = "TokenVerified"
        /\ req[r2].principal = "U1"
        /\ req[r2].path = "u1"

\* what the verifier returned for the request
VerifierResult(q) ==
    IF PassedVerifier(q) THEN <<"principal", q.principal>> ELSE <<"failure", q.class>>

InGate(q) == q.st \in {"Unauthenticated", "TokenVerified", "PathMatched"}

(***************************************************************************)
(* C16.  Every request that enters the gate eventually reaches Authorized  *)
(* or Rejected; while it is inside, its next gate step can always be       *)
(* taken, whatever the other requests are doing.                           *)
(***************************************************************************)
GateRunsToTheEnd ==
    /\ \A r \in Reqs :
           (req[r].st = "Unauthenticated") ~> (req[r].st \in {"Authorized", "Rejected"})
    /\ [](\A r \in Reqs :
             InGate(req[r]) =>
                 ENABLED (VerifyStep(r) \/ MatchStep(r) \/ AuthorizeStep(r)))

EnteredBesideAuthorized ==
    \E r1, r2 \in Reqs :
        /\ req[r1].st = "Unauthenticated"
        /\ req[r2].st = "Authorized"

(***************************************************************************)
(* C17.  If the signing secret is missing at startup the process refuses   *)
(* to start: it never serves, and no request is ever taken in or processed *)
(* by the gate while the secret is undefined.  The secret read at startup  *)
(* is never changed.                                                       *)
(***************************************************************************)
NoServiceWithoutSecret ==
    [][/\ secret' = secret
       /\ secret = NoSecret =>
              /\ proc' \in {"starting", "refused"}
              /\ proc = "refused" => proc' = "refused"
              /\ \A r \in Reqs : req'[r] = IdleReq]_vars

RefusedToStart ==
    /\ secret = NoSecret
    /\ proc = "refused"
    /\ now > 0

\* the response to call c arrives in this step
Answers(c) == inflight[c].st = "sent" /\ inflight'[c].status # 0

\* a request is sent for call c in this step
Sends(c) ==
    /\ inflight'[c].st = "sent"
    /\ (inflight[c].st # "sent" \/ inflight'[c].fn # inflight[c].fn)

(***************************************************************************)
(* C18.  Whenever a backend request of the frontend (a task request of     *)
(* api.ts or a chat request) is answered 401, the stored JWT is removed,   *)
(* the browser goes to /signin, and the call fails with an error instead   *)
(* of returning data.                                                      *)
(***************************************************************************)
UnauthorizedSignsOut ==
    [][\A c \in Calls :
          (Answers(c) /\ inflight'[c].status = 401) =>
              /\ jwt' = NoJwt
              /\ location' = "/signin"
              /\ inflight'[c].st = "done"
              /\ inflight'[c].result = "error"]_vars

(***************************************************************************)
(* C19.  Every request the frontend sends to the backend (getTasks,        *)
(* getTask, createTask, updateTask, deleteTask, toggleCompleteTask, chat)  *)
(* carries an Authorization header, and its token is the JWT that storage  *)
(* holds when the request is built.                                        *)
(***************************************************************************)
RequestsCarryStoredToken ==
    [][\A c \in Calls :
          Sends(c) =>
              /\ inflight'[c].fn \in TaskFns \cup {"getTasks", "chat"}
              /\ inflight'[c].auth # NoHeader
              /\ Truthy(jwt)
              /\ inflight'[c].auth = jwt]_vars

(***************************************************************************)
(* C20.  When the tasks page is opened while no JWT is stored, or while    *)
(* the stored JWT has no decodable user_id, the page redirects to /signin, *)
(* sets no user id and sends nothing; the page and its task components     *)
(* send requests only once the mount has found a token with a user_id and  *)
(* set the page's user id to it.                                           *)
(***************************************************************************)
NoTokenNoTaskList ==
    [][/\ (/\ location = "/tasks"
           /\ ~tasksPage.mounted
           /\ tasksPage'.mounted
           /\ (jwt = NoJwt \/ getUserIdFromToken(jwt) = NoPrincipal)) =>
              /\ location' = "/signin"
              /\ tasksPage'.userId = NoPrincipal
              /\ inflight' = inflight
       /\ tasksPage'.userId \notin {NoPrincipal, tasksPage.userId} =>
              /\ location = "/tasks"
              /\ jwt # NoJwt
              /\ tasksPage'.userId = getUserIdFromToken(jwt)
       /\ \A c \in Calls :
              (Sends(c) /\ inflight'[c].origin = "page") =>
                  /\ tasksPage'.mounted
                  /\ tasksPage'.userId # NoPrincipal
                  /\ inflight'[c].userId = tasksPage'.userId]_vars

OpenedWithoutUserId ==
    /\ location = "/signin"
    /\ tasksPage.mounted
    /\ tasksPage.userId = NoPrincipal
    /\ jwt = Unclaimed
    /\ \A c \in Calls : inflight[c] = IdleCall

(***************************************************************************)
(* C21.  The middleware checks the JWT on the protected routes: a request  *)
(* for /tasks made while the token is missing or invalid is redirected to  *)
(* /signin and never let through, so the tasks page is not arrived at      *)
(* without a token that has a user_id.                                     *)
(***************************************************************************)
ProtectedRoutesGuarded ==
    [][(location # "/tasks" /\ location' = "/tasks") => Authenticated(jwt')]_vars

\* the submission of the signin page receives its response in this step
SigninAnswered == signinPage.loading /\ signinPage'.response # NoAnswer

(***************************************************************************)
(* C22.  When the signin submission receives a successful response (ok,    *)
(* with the access_token of the signin in its body), the token is stored,  *)
(* so that getJWT returns it from then on, and the tasks page is opened;   *)
(* when the response is not ok, storage and the route stay as they are and *)
(* the page shows an error message.                                        *)
(***************************************************************************)
SigninStoresThenRedirects ==
    [][SigninAnswered =>
          LET resp == signinPage'.response
          IN  /\ (Ok(resp.status) /\ Truthy(resp.access_token)) =>
                     /\ jwt' = resp.access_token
                     /\ location' = "/tasks"
                     /\ ~tasksPage'.mounted
                     /\ signinPage'.error = ""
              /\ ~Ok(resp.status) =>
                     /\ jwt' = jwt
                     /\ location' = location
                     /\ tasksPage' = tasksPage
                     /\ signinPage'.error # ""
              /\ ~signinPage'.loading]_vars

SignedInAndRedirected ==
    /\ signinPage.response.status = 200
    /\ signinPage.response.access_token = Issue(ConfiguredKey, "u1", 1)
    /\ jwt = signinPage.response.access_token
    /\ location = "/tasks"
    /\ tasksPage.mounted
    /\ tasksPage.userId = "u1"

(***************************************************************************)
(* C24.  The root page issues exactly one redirect on load: to /tasks when *)
(* a JWT is stored and a user_id decodes from it, to /signin in every      *)
(* other case (no token, a token that does not decode, a token without     *)
(* user_id); it never issues a second one.                                 *)
(***************************************************************************)
RootRedirectsOnce ==
    [][/\ Len(rootPage'.redirects) <= 1
       /\ (rootPage'.redirects # <<>> /\ rootPage'.redirects # rootPage.redirects) =>
              /\ location = "/"
              /\ rootPage.redirects = <<>>
              /\ location' = rootPage'.redirects[1]
              /\ IF jwt # NoJwt /\ jwt.kind = "bearer" /\ jwt.sub # ""
                 THEN rootPage'.redirects = <<"/tasks">>
                 ELSE rootPage'.redirects = <<"/signin">>]_vars

RootSentTokenWithoutUserIdToSignin ==
    /\ rootPage.redirects = <<"/signin">>
    /\ location = "/signin"
    /\ jwt = Unclaimed

(***************************************************************************)
(* C25.  For every task request the tasks page sends with a JWT, the user  *)
(* id placed in the URL path equals the user_id claim of the JWT sent in   *)
(* the Authorization header of that request, also when the stored token    *)
(* was replaced or removed after the page was mounted.                     *)
(***************************************************************************)
PathUserIsTokenUser ==
    [][\A c \in Calls :
          (/\ Sends(c)
           /\ inflight'[c].fn \in TaskFns \cup {"getTasks"}
           /\ inflight'[c].auth # NoHeader) =>
              getUserIdFromToken(inflight'[c].auth) = inflight'[c].userId]_vars

(***************************************************************************)
(* C27.  A 401 response removes only the token that was sent with the      *)
(* failing request: a JWT stored after the request was sent (by a signin   *)
(* in between) is still in storage once the response has been handled.     *)
(***************************************************************************)
UnauthorizedKeepsNewerToken ==
    [][\A c \in Calls :
          (/\ Answers(c)
           /\ inflight'[c].status = 401
           /\ Truthy(jwt)
           /\ getHeaders(jwt) # inflight[c].auth) =>
              jwt' = jwt]_vars

\* the user selects a filter or a sort order on the page on display
Selects ==
    /\ location = "/tasks" /\ tasksPage.mounted
    /\ location' = "/tasks" /\ tasksPage'.mounted
    /\ (tasksPage'.filter # tasksPage.filter \/ tasksPage'.sortBy # tasksPage.sortBy)

LoadInFlight ==
    \E c \in Calls :
        inflight[c].live /\ inflight[c].fn = "getTasks" /\ inflight[c].st \in {"sent", "done"}

(***************************************************************************)
(* C26.  When loadTasks calls overlap on the tasks page and their          *)
(* responses arrive in any order, the loading indicator is shown exactly   *)
(* while at least one load is in flight, and once no load is in flight     *)
(* (and none has failed) the list on display is the response to the        *)
(* request issued last.                                                    *)
(***************************************************************************)
OverlappingLoadsShowLatest ==
    /\ Rendered => (tasksPage.loading <=> LoadInFlight)
    /\ (Rendered /\ ~LoadInFlight /\ tasksPage.error = "") => tasksPage.tasks.latest

====
